---- MODULE Spec2Model ----
(***************************************************************************)
(* Model of the Chat component (src/src/components/Chat.tsx): the session  *)
(* registry (historyList), the active session id, the conversation log     *)
(* (messages), the two localStorage keys and the remote calls in flight.   *)
(*                                                                         *)
(* A handler runs with the values of the render it was created in; every   *)
(* handler is invoked on the latest render, so up to its first await it    *)
(* reads the current state.  What it reads after the await is what that    *)
(* render held: those values travel in the record of the pending call.     *)
(* The continuation of a call and the render that follows it are one step. *)
(*                                                                         *)
(* Strings are sequences of tokens, so that trim() is computed.            *)
(***************************************************************************)
EXTENDS Integers, Sequences, FiniteSets, Bags, TLC

VARIABLES
    mounted,      \* the mount effect of this page load has run
    sessionId,    \* useState sessionId; NoSession is null
    messages,     \* useState messages: the conversation log
    input,        \* useState input
    isLoading,    \* useState isLoading
    historyList,  \* useState historyList: the session registry
    storage,      \* localStorage: chat_session_id, chat_history_list
    pending,      \* bag of remote calls awaiting their response
    nextId,       \* the next session id the service issues
    calls,        \* the number of remote calls issued so far
    origin,       \* history: for each entry of messages, the session it was produced for
    removed       \* history: the ids whose deletion completed

vars == <<mounted, sessionId, messages, input, isLoading, historyList,
          storage, pending, nextId, calls, origin, removed>>

(******************************* bounds ************************************)
MaxIds == 3
MaxPending == 2
MaxCalls == 5
MaxLog == 3

(****************************** data ***************************************)
NoSession == 0
Dates == {"d1"}

Message(role, content) ==
    [role |-> role, content |-> content, hasSources |-> FALSE, sources |-> <<>>]

MessageWithSources(role, content, sources) ==
    [role |-> role, content |-> content, hasSources |-> TRUE, sources |-> sources]

HistoryItem(id, date) == [id |-> id, date |-> date]

initialAssistantMessage ==
    Message("assistant", <<"Hello! I am your news assistant. Ask me anything about the latest news.">>)

NoResponseText == <<"No response received.">>

errorMessage ==
    Message("assistant", <<"Sorry, something went wrong. Please try again.">>)

\* what the user may type: nothing, blanks only, a padded word
Inputs == { <<>>, <<" ", " ">>, <<" ", "a", " ">> }

RECURSIVE trimStart(_)
trimStart(s) == IF s # <<>> /\ Head(s) = " " THEN trimStart(Tail(s)) ELSE s

RECURSIVE trimEnd(_)
trimEnd(s) ==
    IF s # <<>> /\ s[Len(s)] = " " THEN trimEnd(SubSeq(s, 1, Len(s) - 1)) ELSE s

trim(s) == trimEnd(trimStart(s))

\* what the service may answer
HistoryBodies ==
    { [hasHistory |-> FALSE, history |-> <<>>],
      [hasHistory |-> TRUE,  history |-> <<>>],
      [hasHistory |-> TRUE,  history |-> <<Message("user", <<"a">>)>>] }

SourceLists == { <<>>, <<[link |-> "http://x", source |-> "X"]>> }

Answers == {<<>>, <<"Here.">>}

ChatBodies ==
    { [answer |-> a, hasSources |-> FALSE, sources |-> <<>>] : a \in Answers }
    \cup { [answer |-> a, hasSources |-> TRUE, sources |-> s] :
              a \in Answers, s \in SourceLists }

(***************************** localStorage ********************************)
\* a key holds <<>> (absent) or <<value>>
emptyStorage == [chat_session_id |-> <<>>, chat_history_list |-> <<>>]

RECURSIVE stringify(_)
stringify(list) ==
    IF list = <<>> THEN <<>>
    ELSE <<<<Head(list).id, Head(list).date>>>> \o stringify(Tail(list))

RECURSIVE parse(_)
parse(text) ==
    IF text = <<>> THEN <<>>
    ELSE <<HistoryItem(Head(text)[1], Head(text)[2])>> \o parse(Tail(text))

getItem(store, key) == store[key]
setItem(store, key, value) == [store EXCEPT ![key] = <<value>>]
removeItem(store, key) == [store EXCEPT ![key] = <<>>]

\* JSON.parse(localStorage.getItem('chat_history_list') || '[]')
storedHistory(store) ==
    IF getItem(store, "chat_history_list") = <<>> THEN <<>>
    ELSE parse(getItem(store, "chat_history_list")[1])

\* mutant: the current id not written to localStorage
persistSessionSkipped(store, id) == store

\* localStorage.setItem('chat_session_id', id)
persistSession(store, id) == setItem(store, "chat_session_id", id)

\* localStorage.setItem('chat_history_list', JSON.stringify(list))
persistList(store, list) == setItem(store, "chat_history_list", stringify(list))

(****************************** helpers ************************************)
RECURSIVE filterOut(_, _)
filterOut(list, id) ==
    IF list = <<>> THEN <<>>
    ELSE IF Head(list).id # id THEN <<Head(list)>> \o filterOut(Tail(list), id)
    ELSE filterOut(Tail(list), id)

ids(list) == {list[i].id : i \in 1..Len(list)}

RECURSIVE repeat(_, _)
repeat(x, n) == IF n = 0 THEN <<>> ELSE <<x>> \o repeat(x, n - 1)

issue(bag, call) == bag (+) SetToBag({call})
settle(bag, call) == bag (-) SetToBag({call})
inFlight(kind) == {c \in BagToSet(pending) : c.kind = kind}
canIssue == BagCardinality(pending) < MaxPending /\ calls < MaxCalls

fetchHistory(bag, id) == issue(bag, [kind |-> "history", id |-> id])

(******************************* Init **************************************)
Init ==
    /\ mounted = FALSE
    /\ sessionId = NoSession
    /\ messages = <<>>
    /\ input = <<>>
    /\ isLoading = FALSE
    /\ historyList = <<>>
    /\ storage = emptyStorage
    /\ pending = EmptyBag
    /\ nextId = 1
    /\ calls = 0
    /\ origin = <<>>
    /\ removed = {}

(************************ startup and reload *******************************)
\* the mount effect: load the registry, then initSession
Mount ==
    /\ ~mounted
    /\ canIssue
    /\ mounted' = TRUE
    /\ calls' = calls + 1
    /\ historyList' = storedHistory(storage)
    /\ LET storedSession == getItem(storage, "chat_session_id") IN
         IF storedSession # <<>>
         THEN /\ sessionId' = storedSession[1]
              /\ pending' = fetchHistory(pending, storedSession[1])
         ELSE /\ pending' = issue(pending, [kind |-> "create"])
              /\ UNCHANGED sessionId
    /\ UNCHANGED <<messages, input, isLoading, storage, nextId, origin, removed>>

\* a page reload: the component is constructed anew, localStorage survives,
\* the continuations of the calls in flight are gone
Reload ==
    /\ mounted
    /\ mounted' = FALSE
    /\ sessionId' = NoSession
    /\ messages' = <<>>
    /\ input' = <<>>
    /\ isLoading' = FALSE
    /\ historyList' = <<>>
    /\ pending' = EmptyBag
    /\ origin' = <<>>
    /\ UNCHANGED <<storage, nextId, calls, removed>>

(************************** session creation *******************************)
handleNewChat ==
    /\ mounted
    /\ canIssue
    /\ pending' = issue(pending, [kind |-> "create"])
    /\ calls' = calls + 1
    /\ UNCHANGED <<mounted, sessionId, messages, input, isLoading, historyList,
                   storage, nextId, origin, removed>>

\* mutant: the new entry put last
appended(item, prev) == prev \o <<item>>

\* the list the updater of setHistoryList returns
prepended(item, prev) == <<item>> \o prev

createSessionOk(call, date) ==
      /\ nextId <= MaxIds
      /\ LET newSessionId == nextId
             updatedList == prepended(HistoryItem(newSessionId, date), historyList)
         IN /\ sessionId' = newSessionId
            /\ messages' = <<initialAssistantMessage>>
            /\ origin' = <<newSessionId>>
            /\ historyList' = updatedList
            /\ storage' = persistList(persistSession(storage, newSessionId), updatedList)
      /\ nextId' = nextId + 1
      /\ pending' = settle(pending, call)
      /\ UNCHANGED <<mounted, input, isLoading, calls, removed>>

createSessionFail(call) ==
      /\ pending' = settle(pending, call)
      /\ UNCHANGED <<mounted, sessionId, messages, input, isLoading, historyList,
                     storage, nextId, calls, origin, removed>>

(************************** history and switching **************************)
\* mutant: the greeting kept in front of the history returned
loadedAfterGreeting(data) ==
    IF data.hasHistory /\ Len(data.history) > 0
    THEN <<initialAssistantMessage>> \o data.history
    ELSE <<initialAssistantMessage>>

\* the log fetchHistory sets from the body of the response
loadedMessages(data) ==
    IF data.hasHistory /\ Len(data.history) > 0
    THEN data.history
    ELSE <<initialAssistantMessage>>

fetchHistoryOk(call, data) ==
      /\ messages' = loadedMessages(data)
      /\ origin' = repeat(call.id, Len(loadedMessages(data)))
      /\ pending' = settle(pending, call)
      /\ UNCHANGED <<mounted, sessionId, input, isLoading, historyList,
                     storage, nextId, calls, removed>>

fetchHistoryFail(call) ==
      /\ pending' = settle(pending, call)
      /\ UNCHANGED <<mounted, sessionId, messages, input, isLoading, historyList,
                     storage, nextId, calls, origin, removed>>

\* mutant: the guard on the current id missing
loadNeverSkipped(id, current) == FALSE

\* handleLoadSession(id) of a render whose sessionId was `current`
loadSkipped(id, current) == id = current

handleLoadSession(id) ==
    /\ mounted
    /\ canIssue
    /\ IF loadSkipped(id, sessionId)
       THEN UNCHANGED <<sessionId, storage, pending, calls>>
       ELSE /\ sessionId' = id
            /\ storage' = persistSession(storage, id)
            /\ pending' = fetchHistory(pending, id)
            /\ calls' = calls + 1
    /\ UNCHANGED <<mounted, messages, input, isLoading, historyList,
                   nextId, origin, removed>>

(****************************** deletion ***********************************)
\* mutant: the guard off by one
deleteRefusedWhenEmpty(list) == Len(list) < 1

deleteRefused(list) == Len(list) <= 1

handleDeleteSession(id) ==
    /\ mounted
    /\ canIssue
    /\ IF deleteRefused(historyList)
       THEN UNCHANGED <<pending, calls>>
       ELSE /\ pending' = issue(pending, [kind |-> "delete", id |-> id,
                              historyList |-> historyList, sessionId |-> sessionId])
            /\ calls' = calls + 1
    /\ UNCHANGED <<mounted, sessionId, messages, input, isLoading, historyList,
                   storage, nextId, origin, removed>>

\* the list the continuation of the deletion keeps
remaining(list, id) == filterOut(list, id)

\* mutant: the fallback taken from the end of the list
lastSessionOf(list) == list[Len(list)]

\* const nextSession = updatedList[0]
nextSessionOf(list) == list[1]

\* the continuation reads historyList and sessionId of the render that
\* created the handler, and calls the handleLoadSession of that render
deleteSessionOk(call) ==
      LET updatedList == remaining(call.historyList, call.id)
          listed == persistList(storage, updatedList)
          settled == settle(pending, call)
      IN /\ historyList' = updatedList
         /\ removed' = removed \cup {call.id}
         /\ IF call.id = call.sessionId
            THEN IF updatedList # <<>>
                 THEN LET nextSession == nextSessionOf(updatedList) IN
                      IF loadSkipped(nextSession.id, call.sessionId)
                      THEN /\ storage' = listed
                           /\ pending' = settled
                           /\ UNCHANGED <<sessionId, messages, origin, calls>>
                      ELSE /\ calls < MaxCalls
                           /\ sessionId' = nextSession.id
                           /\ storage' = persistSession(listed, nextSession.id)
                           /\ pending' = fetchHistory(settled, nextSession.id)
                           /\ calls' = calls + 1
                           /\ UNCHANGED <<messages, origin>>
                 ELSE /\ sessionId' = NoSession
                      /\ messages' = <<initialAssistantMessage>>
                      /\ origin' = <<NoSession>>
                      /\ storage' = removeItem(listed, "chat_session_id")
                      /\ pending' = settled
                      /\ UNCHANGED calls
            ELSE /\ storage' = listed
                 /\ pending' = settled
                 /\ UNCHANGED <<sessionId, messages, origin, calls>>
         /\ UNCHANGED <<mounted, input, isLoading, nextId>>

\* mutant: the removal applied although the call failed
deleteSessionFailApplied(call) == deleteSessionOk(call)

deleteSessionFail(call) ==
      /\ pending' = settle(pending, call)
      /\ UNCHANGED <<mounted, sessionId, messages, input, isLoading, historyList,
                     storage, nextId, calls, origin, removed>>

(******************************** reset ************************************)
\* mutant: the guard on the session id missing
resetNeverRefused(current) == FALSE

\* if (!sessionId) return
resetRefused(current) == current = NoSession

handleResetChat ==
    /\ mounted
    /\ canIssue
    /\ IF resetRefused(sessionId)
       THEN UNCHANGED <<pending, calls>>
       ELSE /\ pending' = issue(pending, [kind |-> "reset", id |-> sessionId])
            /\ calls' = calls + 1
    /\ UNCHANGED <<mounted, sessionId, messages, input, isLoading, historyList,
                   storage, nextId, origin, removed>>

resetChatOk(call) ==
      /\ messages' = <<initialAssistantMessage>>
      /\ origin' = <<call.id>>
      /\ pending' = settle(pending, call)
      /\ UNCHANGED <<mounted, sessionId, input, isLoading, historyList,
                     storage, nextId, calls, removed>>

resetChatFail(call) ==
      /\ pending' = settle(pending, call)
      /\ UNCHANGED <<mounted, sessionId, messages, input, isLoading, historyList,
                     storage, nextId, calls, origin, removed>>

(******************************* sending ***********************************)
setInput(text) ==
    /\ mounted
    /\ text # input
    /\ input' = text
    /\ UNCHANGED <<mounted, sessionId, messages, isLoading, historyList,
                   storage, pending, nextId, calls, origin, removed>>

\* mutant: the input tested without trim()
sendRefusedUntrimmed(text, loading) == text = <<>> \/ loading

\* mutant: the isLoading half of the guard missing
sendRefusedWhenBlank(text, loading) == trim(text) = <<>>

sendRefused(text, loading) == trim(text) = <<>> \/ loading

userMessage(text) == Message("user", text)

\* setMessages(prev => [...prev, userMessage])
withUser(prev, text) == Append(prev, userMessage(text))

sendMessage ==
    /\ mounted
    /\ canIssue
    /\ sendRefused(input, isLoading) \/ Len(messages) + 2 <= MaxLog
    /\ IF sendRefused(input, isLoading)
       THEN UNCHANGED <<messages, origin, input, isLoading, pending, calls>>
       ELSE /\ messages' = withUser(messages, input)
            /\ origin' = Append(origin, sessionId)
            /\ input' = <<>>
            /\ isLoading' = TRUE
            /\ pending' = issue(pending, [kind |-> "chat", sessionId |-> sessionId,
                                          message |-> input, messages |-> messages])
            /\ calls' = calls + 1
    /\ UNCHANGED <<mounted, sessionId, historyList, storage, nextId, removed>>

\* mutant: the sources of the response dropped
assistantReplyPlain(data) ==
    Message("assistant", IF data.answer # <<>> THEN data.answer ELSE NoResponseText)

assistantReply(data) ==
    LET content == IF data.answer # <<>> THEN data.answer ELSE NoResponseText IN
    IF data.hasSources
    THEN MessageWithSources("assistant", content, data.sources)
    ELSE Message("assistant", content)

\* mutant: the reply set as the whole log instead of appended
withReplyAlone(prev, data) == <<assistantReply(data)>>

\* setMessages(prev => [...prev, reply])
withReply(prev, data) == Append(prev, assistantReply(data))

\* mutant: the failure logged but no entry appended
withErrorDropped(prev) == prev

\* setMessages(prev => [...prev, error entry])
withError(prev) == Append(prev, errorMessage)

sendMessageOk(call, data) ==
      /\ messages' = withReply(messages, data)
      /\ origin' = Append(origin, call.sessionId)
      /\ isLoading' = FALSE
      /\ pending' = settle(pending, call)
      /\ UNCHANGED <<mounted, sessionId, input, historyList, storage, nextId,
                     calls, removed>>

\* mutant: the flag cleared after the reply only, not in a finally
sendMessageFailStillLoading(call) ==
      /\ messages' = withError(messages)
      /\ origin' = Append(origin, call.sessionId)
      /\ pending' = settle(pending, call)
      /\ UNCHANGED <<mounted, sessionId, input, isLoading, historyList, storage,
                     nextId, calls, removed>>

sendMessageFail(call) ==
      /\ messages' = withError(messages)
      /\ origin' = Append(origin, call.sessionId)
      /\ isLoading' = FALSE
      /\ pending' = settle(pending, call)
      /\ UNCHANGED <<mounted, sessionId, input, historyList, storage, nextId,
                     calls, removed>>

(******************************** Next *************************************)
Next ==
    \/ Mount
    \/ Reload
    \/ handleNewChat
    \/ \E call \in inFlight("create"), date \in Dates : createSessionOk(call, date)
    \/ \E call \in inFlight("create") : createSessionFail(call)
    \/ \E id \in ids(historyList) : handleLoadSession(id)
    \/ \E call \in inFlight("history"), data \in HistoryBodies : fetchHistoryOk(call, data)
    \/ \E call \in inFlight("history") : fetchHistoryFail(call)
    \/ \E id \in ids(historyList) : handleDeleteSession(id)
    \/ \E call \in inFlight("delete") : deleteSessionOk(call)
    \/ \E call \in inFlight("delete") : deleteSessionFail(call)
    \/ handleResetChat
    \/ \E call \in inFlight("reset") : resetChatOk(call)
    \/ \E call \in inFlight("reset") : resetChatFail(call)
    \/ \E text \in Inputs : setInput(text)
    \/ sendMessage
    \/ \E call \in inFlight("chat"), data \in ChatBodies : sendMessageOk(call, data)
    \/ \E call \in inFlight("chat") : sendMessageFail(call)

Spec == Init /\ [][Next]_vars

(***************************************************************************)
(*                              properties                                 *)
(***************************************************************************)
copies(kind) == BagCardinality([c \in inFlight(kind) |-> CopiesIn(c, pending)])

\* the log holds what the send of `call` left: nothing else has touched it since
undisturbed(call) == messages = withUser(call.messages, call.message)

sendAccepted == sendMessage /\ ~sendRefused(input, isLoading)

stored(key) == getItem(storage, key)

\* C1: a send whose chat call succeeds makes the log exactly two entries longer
\* than it was before the send: the user entry when the send is accepted, one
\* assistant entry when the call resolves.
C1_SuccessfulSendAddsTwo ==
    [][ /\ sendAccepted => messages' = Append(messages, userMessage(input))
        /\ \A call \in inFlight("chat"), data \in ChatBodies :
             sendMessageOk(call, data) =>
               /\ Len(messages') = Len(messages) + 1
               /\ undisturbed(call) => Len(messages') = Len(call.messages) + 2
      ]_vars

C1_Witness ==
    /\ Len(messages) = 3
    /\ messages[1] = initialAssistantMessage
    /\ messages[2].role = "user"
    /\ messages[3].role = "assistant"
    /\ messages[3] # errorMessage
    /\ ~isLoading

\* C2 as stated: a send whose chat call fails makes the log exactly one entry
\* longer than it was before the send.
C2_FailedSendAddsOne ==
    [][ \A call \in inFlight("chat") :
          sendMessageFail(call) /\ undisturbed(call) =>
            Len(messages') = Len(call.messages) + 1
      ]_vars

\* C2 amended: a send whose chat call fails makes the log exactly two entries
\* longer than it was before the send: the user entry when the send is
\* accepted, the fixed error entry when the call fails.
C2_FailedSendAddsTwo ==
    [][ \A call \in inFlight("chat") :
          sendMessageFail(call) =>
            /\ messages' = Append(messages, errorMessage)
            /\ undisturbed(call) => Len(messages') = Len(call.messages) + 2
      ]_vars

C2_Witness ==
    /\ Len(messages) = 3
    /\ messages[2].role = "user"
    /\ messages[3] = errorMessage
    /\ ~isLoading

\* C3: once the deletion of an id has completed, neither the registry nor the
\* persisted list holds an entry with that id.
C3_DeletedStaysGone ==
    \A id \in removed :
      /\ id \notin ids(historyList)
      /\ id \notin ids(storedHistory(storage))

\* C4: a delete request made while the registry holds at most one entry
\* changes nothing and issues no call, and the completion of a deletion
\* never empties a registry that holds an entry.
C4_LastSessionKept ==
    [][ /\ \A id \in ids(historyList) :
             handleDeleteSession(id) /\ Len(historyList) <= 1 => UNCHANGED vars
        /\ \A call \in inFlight("delete") :
             deleteSessionOk(call) /\ Len(historyList) >= 1 => Len(historyList') >= 1
      ]_vars

C4_Witness ==
    /\ mounted
    /\ canIssue
    /\ Len(historyList) = 1
    /\ removed # {}
    /\ inFlight("delete") = {}

\* C5: with no history load and no send in flight, every entry of the log
\* other than the greeting was produced for the current session.
C5_LogScopedToCurrent ==
    (mounted /\ inFlight("history") = {} /\ inFlight("chat") = {}) =>
      \A i \in 1..Len(messages) :
        messages[i] = initialAssistantMessage \/ origin[i] = sessionId

\* C6: at most one chat request is in flight, and a send attempted while one
\* is pending appends nothing and issues no request.
C6_SingleFlight ==
    /\ [](copies("chat") <= 1)
    /\ [][sendMessage /\ isLoading => UNCHANGED <<messages, pending, calls>>]_vars

C6_Witness ==
    /\ copies("chat") = 1
    /\ isLoading
    /\ trim(input) # <<>>
    /\ canIssue

\* C7: a current session id is the id of an entry of the registry (a pending
\* creation inserts its entry in the step that makes its id current).
C7_CurrentIsRegistered ==
    sessionId # NoSession => sessionId \in ids(historyList)

\* C8: once mounted, the persisted list read back is the registry and the
\* persisted session id is the current id, absent when there is none.
C8_PersistedMirrorsMemory ==
    mounted =>
      /\ storedHistory(storage) = historyList
      /\ stored("chat_session_id") =
           IF sessionId = NoSession THEN <<>> ELSE <<sessionId>>

C8_Witness ==
    /\ mounted
    /\ sessionId # NoSession
    /\ sessionId # historyList[1].id
    /\ Len(historyList) >= 2
    /\ removed # {}

\* C9: mounting on an empty store issues one creation call and nothing else;
\* a successful creation makes the new id current and persisted, prepends its
\* entry to the registry (the only entry if the registry was empty) and
\* leaves the log as the greeting alone.
C9_CreationSeedsSession ==
    [][ /\ Mount /\ storage = emptyStorage =>
             pending' = SetToBag({[kind |-> "create"]}) /\ calls' = calls + 1
        /\ \A call \in inFlight("create"), date \in Dates :
             createSessionOk(call, date) =>
               /\ historyList' = <<HistoryItem(nextId, date)>> \o historyList
               /\ storedHistory(storage') = historyList'
               /\ stored("chat_session_id")' = <<nextId>>
               /\ sessionId' = nextId
               /\ messages' = <<initialAssistantMessage>>
               /\ inFlight("history")' = inFlight("history")
      ]_vars

C9_Witness ==
    /\ calls = 1
    /\ pending = EmptyBag
    /\ Len(historyList) = 1
    /\ sessionId = historyList[1].id
    /\ stored("chat_session_id") = <<sessionId>>
    /\ messages = <<initialAssistantMessage>>

\* C10: a history load that completes replaces the log by the history returned
\* when that is not empty, and by the greeting alone when it is empty or
\* absent; mounting on a persisted id makes it current and issues a history
\* load for it, no creation.
C10_HistoryReplacesLog ==
    [][ /\ \A call \in inFlight("history"), data \in HistoryBodies :
             fetchHistoryOk(call, data) =>
               IF data.hasHistory /\ data.history # <<>>
               THEN messages' = data.history
               ELSE messages' = <<initialAssistantMessage>>
        /\ Mount /\ stored("chat_session_id") # <<>> =>
             /\ sessionId' = stored("chat_session_id")[1]
             /\ pending' = SetToBag({[kind |-> "history", id |-> sessionId']})
      ]_vars

C10_Witness ==
    /\ mounted
    /\ sessionId # NoSession
    /\ inFlight("history") = {}
    /\ messages = <<Message("user", <<"a">>)>>
\* C11: a history fetch that fails leaves the log as the greeting alone.
C11_FailedFetchFallsBack ==
    [][ \A call \in inFlight("history") :
          fetchHistoryFail(call) => messages' = <<initialAssistantMessage>>
      ]_vars
C14_ResetClearsLogOnly ==
    [][ /\ handleResetChat =>
             IF sessionId = NoSession
             THEN UNCHANGED vars
             ELSE pending' = issue(pending, [kind |-> "reset", id |-> sessionId])
        /\ \A call \in inFlight("reset") :
             resetChatOk(call) =>
               /\ messages' = <<initialAssistantMessage>>
               /\ UNCHANGED <<historyList, storage, sessionId>>
      ]_vars

C14_Witness ==
    /\ mounted
    /\ pending = EmptyBag
    /\ calls >= 3
    /\ nextId = 2
    /\ sessionId = 1
    /\ historyList = <<HistoryItem(1, "d1")>>
    /\ messages = <<initialAssistantMessage>>
    /\ origin = <<1>>
    /\ ~isLoading
\* C15: a send with empty or blank input changes neither the log, nor the
\* pending flag, nor the calls issued.
C15_BlankSendIsNoOp ==
    [][ sendMessage /\ trim(input) = <<>> =>
          UNCHANGED <<messages, isLoading, pending, calls, input>>
      ]_vars

C15_Witness ==
    /\ mounted
    /\ canIssue
    /\ ~isLoading
    /\ input # <<>>
    /\ trim(input) = <<>>
    /\ messages # <<>>

\* C16: switching to the current id issues no call and changes nothing;
\* switching to another id makes it current and persisted and issues one
\* history fetch for it.
C16_SwitchSession ==
    [][ \A id \in ids(historyList) :
          handleLoadSession(id) =>
            IF id = sessionId
            THEN UNCHANGED vars
            ELSE /\ sessionId' = id
                 /\ stored("chat_session_id")' = <<id>>
                 /\ pending' = issue(pending, [kind |-> "history", id |-> id])
                 /\ calls' = calls + 1
                 /\ UNCHANGED <<messages, historyList>>
      ]_vars

C16_Witness ==
    /\ mounted
    /\ removed = {}
    /\ Len(historyList) >= 2
    /\ sessionId = historyList[2].id
    /\ stored("chat_session_id") = <<sessionId>>
    /\ origin = <<historyList[1].id>>
    /\ pending = SetToBag({[kind |-> "history", id |-> sessionId]})

lastMessage(log) == log[Len(log)]

C18_CreatedStaysListed ==
    \A id \in 1..(nextId - 1) :
      id \notin removed =>
        /\ mounted => id \in ids(historyList)
        /\ id \in ids(storedHistory(storage))

\* C19: the completion of the deletion of an id that is not the current one
\* leaves the current id, the persisted id and the log as they were and
\* issues no history fetch.
C19_DeletingOtherKeepsActive ==
    [][ \A call \in inFlight("delete") :
          deleteSessionOk(call) /\ call.id # sessionId =>
            /\ UNCHANGED <<sessionId, messages>>
            /\ stored("chat_session_id")' = stored("chat_session_id")
            /\ copies("history")' = copies("history")
      ]_vars

\* C20: the pending flag is set exactly while a chat call is in flight: a
\* send that is accepted sets it, and the response to the call, reply or
\* failure, clears it, after which a send is accepted again.
C20_LoadingWhileInFlight ==
    /\ [](isLoading <=> copies("chat") = 1)
    /\ [][ /\ sendAccepted => isLoading'
           /\ \A call \in inFlight("chat") :
                (sendMessageFail(call) \/ \E data \in ChatBodies : sendMessageOk(call, data))
                  => /\ ~isLoading'
                     /\ ~sendRefused(<<"a">>, isLoading')
       ]_vars

C20_Witness ==
    /\ mounted
    /\ ~isLoading
    /\ copies("chat") = 0
    /\ Len(messages) >= 2
    /\ messages[Len(messages) - 1].role = "user"
    /\ lastMessage(messages) = errorMessage
    /\ trim(input) # <<>>
====
